---------------------------- MODULE Spec2Model ----------------------------
(***************************************************************************)
(* A model of the scarlet colour library: the ColorPoint geometric         *)
(* operations (src/src/color_funcs.rs) and the colormap evaluation engine  *)
(* (src/src/colormap.rs).                                                  *)
(*                                                                         *)
(* f64 values are modelled as exact rationals <<num, den>> in lowest terms *)
(* with den > 0, plus one value NonFinite standing for the IEEE results    *)
(* inf, -inf and NaN.  Rounding error is not modelled: every statement     *)
(* below is a statement about the real-number reading of the code.         *)
(***************************************************************************)
EXTENDS Integers, Sequences, FiniteSets, TLC

VARIABLES
    cmap,   \* the colormap instance of the run: NoMap before its construction
    args,   \* the arguments of a pending ColorPoint call
    call    \* the last operation performed, with its inputs and its result

vars == <<cmap, args, call>>

---------------------------------------------------------------------------
(* Bounds of the model *)

\* denominators of the inputs x handed to transform_single: x = k / InDen
InDen == 4
\* denominators of the padding bounds: lo, hi = k / PadDen
PadDen == 4
\* largest root r of the cube inputs (a/r)^3 handed to a Cbrt gradient
MaxRoot == 3
\* largest number of rows of a ListedColorMap
MaxRows == 5
\* largest length of the input sequence handed to transform
MaxLen == 2
\* largest length of the `others` vector handed to weighted_average
MaxOthers == 2

---------------------------------------------------------------------------
(* f64 arithmetic, exact *)

Abs(n) == IF n < 0 THEN -n ELSE n

RECURSIVE GCD(_, _)
GCD(a, b) == IF b = 0 THEN a ELSE GCD(b, a % b)

\* the rational n/d in lowest terms, d # 0
Rat(n, d) ==
    LET s == IF d < 0 THEN -1 ELSE 1
        g == GCD(Abs(n), Abs(d))
    IN  <<(s * n) \div g, (s * d) \div g>>

\* inf, -inf or NaN
NonFinite == <<0, 0>>

IsFinite(a) == a[2] # 0

Zero == <<0, 1>>
One == <<1, 1>>

\* sums and products are formed over reduced terms, so that the integers
\* stay small
RAdd(a, b) ==
    IF IsFinite(a) /\ IsFinite(b)
    THEN LET g == GCD(a[2], b[2])
         IN  Rat(a[1] * (b[2] \div g) + b[1] * (a[2] \div g),
                 (a[2] \div g) * b[2])
    ELSE NonFinite

RNeg(a) == <<-a[1], a[2]>>

RSub(a, b) == RAdd(a, RNeg(b))

RMul(a, b) ==
    IF IsFinite(a) /\ IsFinite(b)
    THEN LET g == GCD(Abs(a[1]), b[2])
             h == GCD(Abs(b[1]), a[2])
         IN  Rat((a[1] \div g) * (b[1] \div h), (a[2] \div h) * (b[2] \div g))
    ELSE NonFinite

\* a / 0.0 is inf, -inf or NaN in f64
RDiv(a, b) ==
    IF IsFinite(a) /\ IsFinite(b) /\ b[1] # 0
    THEN RMul(a, Rat(b[2], b[1]))
    ELSE NonFinite

\* a < b on finite values
RLt(a, b) == a[1] * b[2] < b[1] * a[2]

\* f64::floor and f64::ceil followed by `as usize`, on a finite value >= 0
RFloor(a) == a[1] \div a[2]
RCeil(a) == -((-a[1]) \div a[2])

\* the integer n as an f64
RInt(n) == <<n, 1>>

RECURSIVE RSum(_)
RSum(s) == IF s = <<>> THEN Zero ELSE RAdd(Head(s), RSum(Tail(s)))

---------------------------------------------------------------------------
(* Coord: a point of 3-space (crate module `coord`)                        *)

Coord(x, y, z) == [x |-> x, y |-> y, z |-> z]

CoordAdd(c, d) == Coord(RAdd(c.x, d.x), RAdd(c.y, d.y), RAdd(c.z, d.z))

CoordScale(c, k) == Coord(RMul(c.x, k), RMul(c.y, k), RMul(c.z, k))

CoordDiv(c, k) == Coord(RDiv(c.x, k), RDiv(c.y, k), RDiv(c.z, k))

\* Coord::weighted_midpoint(&self, other, weight): the point of the segment
\* whose distance to `other` is `weight` of the segment's length, that is
\* weight * self + (1 - weight) * other.
Coord_weighted_midpoint(c, other, weight) ==
    CoordAdd(CoordScale(c, weight), CoordScale(other, RSub(One, weight)))

---------------------------------------------------------------------------
(* RGBColor and its bijection with Coord: r <-> x, g <-> y, b <-> z        *)

RGBColor(r, g, b) == [r |-> r, g |-> g, b |-> b]

IntoCoord(col) == Coord(col.r, col.g, col.b)

FromCoord(c) == RGBColor(c.x, c.y, c.z)

\* colours of the tests, #FF0000 #CC0000 #0000CC (0xCC/0xFF is 4/5), and one
\* colour whose three channels all differ
Palette ==
    { RGBColor(One, Zero, Zero),
      RGBColor(Rat(4, 5), Zero, Zero), RGBColor(Zero, Zero, Rat(4, 5)),
      RGBColor(Rat(1, 4), Rat(1, 2), Rat(3, 4)) }

\* all sequences over S of length lo..hi
SeqsOf(S, lo, hi) == UNION { [1..n -> S] : n \in lo..hi }

---------------------------------------------------------------------------
(* ColorPoint operations, src/src/color_funcs.rs                           *)

MismatchedWeights == "MismatchedWeights"

Ok(v) == [ok |-> TRUE, value |-> v]
Err(e) == [ok |-> FALSE, error |-> e]

\* hands the two coordinates over in the other order
weighted_midpoint_swapped(self, other, weight) ==
    FromCoord(Coord_weighted_midpoint(IntoCoord(other), IntoCoord(self), weight))

weighted_midpoint(self, other, weight) ==
    LET c1 == IntoCoord(self)
        c2 == IntoCoord(other)
    IN  FromCoord(Coord_weighted_midpoint(c1, c2, weight))

\* the loop `for i in 1..weights.len()` of weighted_average
RECURSIVE AverageLoop(_, _, _, _, _)
AverageLoop(coord, others, weights, norm, i) ==
    IF i > Len(weights) - 1 THEN coord
    ELSE AverageLoop(
            CoordAdd(coord,
                     CoordDiv(CoordScale(IntoCoord(others[i]), weights[i + 1]),
                              norm)),
            others, weights, norm, i + 1)

\* pairs colours with weights up to the shorter of the two, as a zip would
weighted_average_zip(self, others, weights) ==
    LET n == IF Len(others) + 1 < Len(weights)
             THEN Len(others) + 1 ELSE Len(weights)
    IN  IF n = 0 THEN Ok(self)
        ELSE LET ws == SubSeq(weights, 1, n)
                 os == SubSeq(others, 1, n - 1)
                 norm == RSum(ws)
                 coord == CoordDiv(CoordScale(IntoCoord(self), ws[1]), norm)
             IN  Ok(FromCoord(AverageLoop(coord, os, ws, norm, 1)))

\* leaves the division by the sum of the weights out
weighted_average_unnormalized(self, others, weights) ==
    IF Len(others) + 1 # Len(weights)
    THEN Err(MismatchedWeights)
    ELSE LET c1 == IntoCoord(self)
             coord == CoordScale(c1, weights[1])
         IN  Ok(FromCoord(AverageLoop(coord, others, weights, One, 1)))

weighted_average(self, others, weights) ==
    IF Len(others) + 1 # Len(weights)
    THEN Err(MismatchedWeights)
    ELSE LET c1 == IntoCoord(self)
             norm == RSum(weights)
             coord == CoordDiv(CoordScale(c1, weights[1]), norm)
         IN  Ok(FromCoord(AverageLoop(coord, others, weights, norm, 1)))


---------------------------------------------------------------------------
(* NormalizeMapping, src/src/colormap.rs                                   *)

Linear == "Linear"
Cbrt == "Cbrt"
Generic == "Generic"

\* the integer cube root of a perfect cube n >= 0
ICbrt(n) == CHOOSE r \in 0..n : r * r * r = n

IsCube(n) == \E r \in 0..n : r * r * r = n

\* f64::cbrt on a rational >= 0 whose cube root is rational
RCbrt(a) == <<ICbrt(a[1]), ICbrt(a[2])>>

HasRationalCbrt(a) == IsCube(a[1]) /\ IsCube(a[2])

\* the function a Generic mapping carries here: x -> x * x
GenericFunc(x) == RMul(x, x)

\* treats Cbrt as Linear
normalize_ignoring_cbrt(mapping, x) ==
    IF mapping = Generic THEN GenericFunc(x) ELSE x

normalize(mapping, x) ==
    CASE mapping = Linear -> x
      [] mapping = Cbrt -> RCbrt(x)
      [] mapping = Generic -> GenericFunc(x)

---------------------------------------------------------------------------
(* GradientColorMap, src/src/colormap.rs                                   *)

NoMap == [kind |-> "none"]

GradientColorMap(start, end, normalization, padding) ==
    [kind |-> "gradient", start |-> start, end |-> end,
     normalization |-> normalization, padding |-> padding]

DefaultPadding == <<Zero, One>>

new_linear(start, end) == GradientColorMap(start, end, Linear, DefaultPadding)

new_cbrt(start, end) == GradientColorMap(start, end, Cbrt, DefaultPadding)

\* ColorPoint::padded_gradient(&self, other, lower_pad, upper_pad)(t): the
\* point at fraction lower_pad + (upper_pad - lower_pad) * t of the way from
\* self to other (crate module `colorpoint`; the form the three gradient
\* tests of colormap.rs fix)
padded_gradient(start, end, lower_pad, upper_pad, t) ==
    LET c1 == IntoCoord(start)
        c2 == IntoCoord(end)
        p == RAdd(lower_pad, RMul(RSub(upper_pad, lower_pad), t))
    IN  FromCoord(Coord_weighted_midpoint(c2, c1, p))

\* the `clamped` of both transform_single bodies
Clamp(x) == IF RLt(x, Zero) THEN Zero ELSE IF RLt(One, x) THEN One ELSE x

\* clamps an x above 1 to 0, as the branch for x below 0 does
gradient_transform_single_clamp_to_zero(m, x) ==
    LET clamped == IF RLt(x, Zero) THEN Zero
                   ELSE IF RLt(One, x) THEN Zero ELSE x
    IN  padded_gradient(m.start, m.end, m.padding[1], m.padding[2],
                        normalize(m.normalization, clamped))

\* ignores the padding field
gradient_transform_single_no_padding(m, x) ==
    padded_gradient(m.start, m.end, Zero, One,
                   normalize(m.normalization, Clamp(x)))

\* runs the gradient from end to start
gradient_transform_single_swapped_ends(m, x) ==
    padded_gradient(m.end, m.start, m.padding[1], m.padding[2],
                    normalize(m.normalization, Clamp(x)))

\* remaps the clamped input into the padding first and normalizes the remapped
\* value; a cube root that is not rational is rendered as NonFinite
gradient_transform_single_pad_first(m, x) ==
    LET padded == RAdd(m.padding[1],
                       RMul(RSub(m.padding[2], m.padding[1]), Clamp(x)))
        n == IF m.normalization = Cbrt /\ ~HasRationalCbrt(padded)
             THEN NonFinite
             ELSE normalize(m.normalization, padded)
    IN  padded_gradient(m.start, m.end, Zero, One, n)

gradient_transform_single(m, x) ==
    LET clamped == Clamp(x)
    IN  padded_gradient(m.start, m.end, m.padding[1], m.padding[2],
                       normalize(m.normalization, clamped))

---------------------------------------------------------------------------
(* ListedColorMap, src/src/colormap.rs                                     *)

ListedColorMap(vals) == [kind |-> "listed", vals |-> vals]

\* Coord { x: arr[0], y: arr[1], z: arr[2] }
CoordOfRow(arr) == Coord(arr[1], arr[2], arr[3])

\* float_ind, ind1 and ind2 of transform_single; rows are indexed from 0 in
\* the code and from 1 here
\* scales by len - 2
FloatIndShort(vals, x) == RMul(Clamp(x), RSub(RInt(Len(vals)), RInt(2)))
\* scales by len, without the 1 the code subtracts
FloatIndLen(vals, x) == RMul(Clamp(x), RInt(Len(vals)))
FloatInd(vals, x) == RMul(Clamp(x), RSub(RInt(Len(vals)), One))
Ind1(vals, x) == RFloor(FloatInd(vals, x))
Ind2(vals, x) == RCeil(FloatInd(vals, x))

\* self.vals[ind] panics when ind is not an index of the Vec
IndexOutOfBounds == [panic |-> "index out of bounds"]
InRange(vals, ind) == ind \in 0..(Len(vals) - 1)

\* clamps an x above 1 to 0, as the branch for x below 0 does
listed_transform_single_clamp_to_zero(m, x) ==
    LET low == IF RLt(One, x) THEN Zero ELSE x
        clamped == Clamp(low)
        ind1 == Ind1(m.vals, low)
        ind2 == Ind2(m.vals, low)
    IN  IF ind1 = ind2
        THEN FromCoord(CoordOfRow(m.vals[ind1 + 1]))
        ELSE LET coord1 == CoordOfRow(m.vals[ind1 + 1])
                 coord2 == CoordOfRow(m.vals[ind2 + 1])
             IN  FromCoord(Coord_weighted_midpoint(coord2, coord1, clamped))

\* The target type is RGBColor, for which convert() is the round trip through
\* XYZ under one illuminant; it is left out.
listed_transform_single(m, x) ==
    LET clamped == Clamp(x)
        ind1 == Ind1(m.vals, x)
        ind2 == Ind2(m.vals, x)
    IN  IF ~InRange(m.vals, ind1) \/ ~InRange(m.vals, ind2)
        THEN IndexOutOfBounds
        ELSE IF ind1 = ind2
        THEN FromCoord(CoordOfRow(m.vals[ind1 + 1]))
        ELSE LET coord1 == CoordOfRow(m.vals[ind1 + 1])
                 coord2 == CoordOfRow(m.vals[ind2 + 1])
             IN  FromCoord(Coord_weighted_midpoint(coord2, coord1, clamped))

---------------------------------------------------------------------------
(* ColorMap, src/src/colormap.rs                                           *)

\* the implementation of transform_single the trait object dispatches to
transform_single(m, x) ==
    IF m.kind = "gradient" THEN gradient_transform_single(m, x)
    ELSE listed_transform_single(m, x)

\* inputs.into_iter().map(|x| self.transform_single(x)).collect()
RECURSIVE MapCollect(_, _, _)
MapCollect(m, inputs, out) ==
    IF inputs = <<>> THEN out
    ELSE MapCollect(m, Tail(inputs), Append(out, transform_single(m, Head(inputs))))

RECURSIVE Reverse(_)
Reverse(s) == IF s = <<>> THEN <<>> ELSE Append(Reverse(Tail(s)), Head(s))

\* collects the colours in the opposite order
transform_reversed(m, inputs) == Reverse(MapCollect(m, inputs, <<>>))

transform(m, inputs) == MapCollect(m, inputs, <<>>)

---------------------------------------------------------------------------
(* Inputs                                                                  *)

\* k/d for every denominator d up to InDen, from below 0 to above 1
GridInputs == UNION { { Rat(k, d) : k \in (-1)..(d + 1) } : d \in 1..InDen }

\* the inputs of the tests of colormap.rs
TestInputs == { Rat(-1, 5), Rat(1, 15), Rat(1, 5), Rat(4, 5), RInt(100) }

\* (a/r)^3: the inputs whose cube root is rational
CubeInputs ==
    UNION { { Rat(a * a * a, r * r * r) : a \in 0..r } : r \in 1..MaxRoot }

\* the grid points k/(N-1) of every table length N
TableGrid == UNION { { Rat(k, d) : k \in 0..d } : d \in 1..(MaxRows - 1) }

Inputs == GridInputs \cup TestInputs \cup CubeInputs \cup TableGrid

\* the inputs a colormap is evaluated at: a Cbrt gradient is evaluated where
\* the cube root is rational
InputsFor(m) ==
    IF m.kind = "gradient" /\ m.normalization = Cbrt
    THEN { x \in Inputs : HasRationalCbrt(Clamp(x)) }
    ELSE Inputs

\* the inputs of a bulk evaluation
BulkInputs == { Rat(-1, 5), Zero, Rat(1, 8), RInt(100) }

\* the padding windows (lo, hi), 0 <= lo < hi <= 1
Paddings ==
    { p \in { <<Rat(a, PadDen), Rat(b, PadDen)>> : a, b \in 0..PadDen } :
        RLt(p[1], p[2]) }

\* row i of the reference table the listed colormaps are cut from; the
\* channels are not affine in i
Row(i) == <<Rat(i, 8), Rat((i * i) % 7, 7), Rat(8 - i, 8)>>

\* the tables: every window of 2..MaxRows consecutive rows starting at one
\* of the first three rows
Tables == { [k \in 1..n |-> Row(off + k)] : n \in 2..MaxRows, off \in 0..2 }

Weights == { Rat(-1, 2), Zero, Rat(1, 4), Rat(1, 2), One, Rat(3, 2) }

AvgColors ==
    { RGBColor(One, Zero, Zero), RGBColor(Zero, Zero, Rat(4, 5)),
      RGBColor(Rat(1, 4), Rat(1, 2), Rat(3, 4)) }

AvgWeights == { RInt(-1), One, RInt(2) }

MidpointArgs ==
    [op : {"weighted_midpoint"}, self : Palette, other : Palette,
     weight : Weights]

AverageArgs ==
    [op : {"weighted_average"}, self : AvgColors,
     others : SeqsOf(AvgColors, 0, MaxOthers),
     weights : SeqsOf(AvgWeights, 0, MaxOthers + 2)]

NoArgs == [op |-> "none"]
NoCall == [op |-> "none"]

---------------------------------------------------------------------------
(* The colormap state machine                                              *)

Init ==
    /\ cmap = NoMap
    /\ args = NoArgs
    /\ call = NoCall

NewLinear ==
    \E start, end \in Palette :
        /\ cmap = NoMap
        /\ cmap' = new_linear(start, end)
        /\ call' = [op |-> "new_linear"]
        /\ UNCHANGED args

NewCbrt ==
    \E start, end \in Palette :
        /\ cmap = NoMap
        /\ cmap' = new_cbrt(start, end)
        /\ call' = [op |-> "new_cbrt"]
        /\ UNCHANGED args

\* cmap.padding = (lo, hi), as test_padding does
SetPadding ==
    \E p \in Paddings :
        /\ cmap.kind = "gradient"
        /\ cmap' = [cmap EXCEPT !.padding = p]
        /\ call' = [op |-> "set_padding"]
        /\ UNCHANGED args

\* cmap.normalization = mapping
SetNormalization ==
    \E mapping \in {Linear, Cbrt, Generic} :
        /\ cmap.kind = "gradient"
        /\ cmap' = [cmap EXCEPT !.normalization = mapping]
        /\ call' = [op |-> "set_normalization"]
        /\ UNCHANGED args

\* transform_single that keeps the color it returned as the new start
GradientEvalMovingStart ==
    \E x \in Inputs :
        /\ cmap.kind = "gradient"
        /\ x \in InputsFor(cmap)
        /\ call' = [op |-> "transform_single", x |-> x,
                    result |-> gradient_transform_single(cmap, x)]
        /\ cmap' = [cmap EXCEPT !.start = gradient_transform_single(cmap, x)]
        /\ UNCHANGED args

GradientEval ==
    \E x \in Inputs :
        /\ cmap.kind = "gradient"
        /\ x \in InputsFor(cmap)
        /\ call' = [op |-> "transform_single", x |-> x,
                    result |-> gradient_transform_single(cmap, x)]
        /\ UNCHANGED <<cmap, args>>

ListedNew ==
    \E vals \in Tables :
        /\ cmap = NoMap
        /\ cmap' = ListedColorMap(vals)
        /\ call' = [op |-> "new"]
        /\ UNCHANGED args

ListedEval ==
    \E x \in Inputs :
        /\ cmap.kind = "listed"
        /\ call' = [op |-> "transform_single", x |-> x,
                    result |-> listed_transform_single(cmap, x)]
        /\ UNCHANGED <<cmap, args>>

BulkEval ==
    \E inputs \in SeqsOf(BulkInputs, 0, MaxLen) :
        /\ cmap.kind # "none"
        /\ call' = [op |-> "transform", inputs |-> inputs,
                    result |-> transform(cmap, inputs)]
        /\ UNCHANGED <<cmap, args>>

Next ==
    \/ NewLinear
    \/ NewCbrt
    \/ SetPadding
    \/ SetNormalization
    \/ GradientEval
    \/ ListedNew
    \/ ListedEval

Spec == Init /\ [][Next]_vars

TransformNext ==
    \/ NewLinear
    \/ NewCbrt
    \/ ListedNew
    \/ BulkEval

TransformSpec == Init /\ [][TransformNext]_vars

\* every evaluation of a constructed colormap, in any order
FrameNext ==
    \/ NewLinear
    \/ NewCbrt
    \/ ListedNew
    \/ GradientEval
    \/ ListedEval
    \/ BulkEval

FrameSpec == Init /\ [][FrameNext]_vars

---------------------------------------------------------------------------
(* The ColorPoint calls: the arguments are drawn first, then the call runs *)

PointInit ==
    /\ cmap = NoMap
    /\ args \in MidpointArgs \cup AverageArgs
    /\ call = NoCall

CallWeightedMidpoint ==
    /\ args.op = "weighted_midpoint"
    /\ call = NoCall
    /\ call' = [op |-> "weighted_midpoint",
                result |-> weighted_midpoint(args.self, args.other, args.weight)]
    /\ UNCHANGED <<cmap, args>>

CallWeightedAverage ==
    /\ args.op = "weighted_average"
    /\ call = NoCall
    /\ call' = [op |-> "weighted_average",
                result |-> weighted_average(args.self, args.others, args.weights)]
    /\ UNCHANGED <<cmap, args>>

PointNext ==
    \/ CallWeightedMidpoint
    \/ CallWeightedAverage

PointSpec == PointInit /\ [][PointNext]_vars

---------------------------------------------------------------------------
(* Reference forms the properties are stated with                          *)

RLe(a, b) == ~RLt(b, a)

\* a + p * (b - a), channel by channel
Lerp(a, b, p) ==
    RGBColor(RAdd(a.r, RMul(p, RSub(b.r, a.r))),
             RAdd(a.g, RMul(p, RSub(b.g, a.g))),
             RAdd(a.b, RMul(p, RSub(b.b, a.b))))

GradientCallDone == call.op = "transform_single" /\ cmap.kind = "gradient"
ListedCallDone == call.op = "transform_single" /\ cmap.kind = "listed"

---------------------------------------------------------------------------
(* Properties                                                              *)

\* C1: weighted_average returns Err(MismatchedWeights) exactly when
\* len(weights) # len(others) + 1, empty weights included, and Ok(color)
\* otherwise; it produces no other error.
C1_MismatchedWeightsIffLengthsDiffer ==
    call.op = "weighted_average" =>
        IF Len(args.weights) # Len(args.others) + 1
        THEN call.result = Err(MismatchedWeights)
        ELSE call.result.ok /\ DOMAIN call.result = {"ok", "value"}

C1_Witness ==
    /\ call.op = "weighted_average"
    /\ args.weights = <<>>
    /\ call.result = Err(MismatchedWeights)

\* C2: with the default padding (0,1) and Linear or Cbrt normalization,
\* transform_single(x) is start for every x <= 0 and end for every x >= 1.
C2_DefaultPaddingEndpoints ==
    (/\ GradientCallDone
     /\ cmap.padding = DefaultPadding
     /\ cmap.normalization \in {Linear, Cbrt}) =>
        /\ RLe(call.x, Zero) => call.result = cmap.start
        /\ RLe(One, call.x) => call.result = cmap.end

C2_Witness ==
    /\ GradientCallDone
    /\ cmap.padding = DefaultPadding
    /\ cmap.normalization = Cbrt
    /\ cmap.start # cmap.end
    /\ call.x = RInt(100)
    /\ call.result = cmap.end

\* C3 as stated: with a non-default padding (lo, hi), transform_single(lo) is
\* start and transform_single(hi) is end.
C3_Original ==
    (GradientCallDone /\ cmap.padding # DefaultPadding) =>
        /\ call.x = cmap.padding[1] => call.result = cmap.start
        /\ call.x = cmap.padding[2] => call.result = cmap.end

\* C3 as amended: with a non-default padding (lo, hi) and a normalization that
\* fixes 0 and 1, transform_single(x) is the point at fraction lo of the way
\* from start to end for every x <= 0 and the point at fraction hi for every
\* x >= 1; transform_single(lo) is start only if lo = 0 or start = end, and
\* transform_single(hi) is end only if hi = 1 or start = end.
C3_PaddedEndpoints ==
    (GradientCallDone /\ cmap.padding # DefaultPadding) =>
        LET lo == cmap.padding[1]
            hi == cmap.padding[2]
        IN  /\ RLe(call.x, Zero) =>
                call.result = Lerp(cmap.start, cmap.end, lo)
            /\ RLe(One, call.x) =>
                call.result = Lerp(cmap.start, cmap.end, hi)
            /\ (call.x = lo /\ call.result = cmap.start) =>
                (lo = Zero \/ cmap.start = cmap.end)
            /\ (call.x = hi /\ call.result = cmap.end) =>
                (hi = One \/ cmap.start = cmap.end)

C3_Witness ==
    /\ GradientCallDone
    /\ cmap.padding = <<Rat(1, 4), Rat(3, 4)>>
    /\ cmap.start # cmap.end
    /\ call.x = Rat(1, 4)
    /\ call.result # cmap.start

\* C4: strictly between two grid points of a table of N rows,
\* transform_single(x) is row[floor] + (idx - floor(idx)) * (row[ceil] -
\* row[floor]) with idx = clamp(x) * (N - 1), for every N >= 2.
C4_InterpolatesAtFractionOfIndex ==
    (ListedCallDone /\ Ind1(cmap.vals, call.x) # Ind2(cmap.vals, call.x)) =>
        LET idx == FloatInd(cmap.vals, call.x)
            lower == FromCoord(CoordOfRow(cmap.vals[RFloor(idx) + 1]))
            upper == FromCoord(CoordOfRow(cmap.vals[RCeil(idx) + 1]))
        IN  call.result = Lerp(lower, upper, RSub(idx, RInt(RFloor(idx))))

\* C5: at every grid point x = k/(N-1), k in 0..N-1, transform_single(x) is
\* table row k itself: x = 0 gives the first row, x = 1 the last, and x = 1/2
\* on a table of 5 rows the middle row.
C5_GridPointsReturnRows ==
    ListedCallDone =>
        LET N == Len(cmap.vals)
        IN  /\ \A k \in 0..(N - 1) :
                call.x = Rat(k, N - 1) =>
                    call.result = FromCoord(CoordOfRow(cmap.vals[k + 1]))
            /\ call.x = Zero => call.result = FromCoord(CoordOfRow(cmap.vals[1]))
            /\ call.x = One => call.result = FromCoord(CoordOfRow(cmap.vals[N]))
            /\ (N = 5 /\ call.x = Rat(1, 2)) =>
                call.result = FromCoord(CoordOfRow(cmap.vals[3]))

C5_Witness ==
    /\ ListedCallDone
    /\ Len(cmap.vals) = 5
    /\ call.x = Rat(1, 2)
    /\ call.result = FromCoord(CoordOfRow(cmap.vals[3]))

\* C6: transform(inputs) returns a sequence as long as inputs whose i-th
\* element is transform_single(inputs[i]): the output order is the input
\* order.
C6_TransformIsElementwise ==
    call.op = "transform" =>
        /\ Len(call.result) = Len(call.inputs)
        /\ \A i \in 1..Len(call.inputs) :
            call.result[i] = transform_single(cmap, call.inputs[i])

C6_Witness ==
    /\ call.op = "transform"
    /\ Len(call.inputs) = 2
    /\ call.inputs[1] = Rat(1, 8)
    /\ call.inputs[2] = RInt(100)
    /\ call.result[1] # call.result[2]
    /\ call.result[2] = transform_single(cmap, RInt(100))

\* C7: with padding (lo, hi), transform_single(x) is
\* start + (lo + n * (hi - lo)) * (end - start), n = normalize(clamp(x)); with
\* padding (1/4, 3/4) from #CC0000 to #0000CC every x <= 0 gives #990033 and
\* every x >= 1 gives #330099.
C7_PaddingSelectsSubsegment ==
    GradientCallDone =>
        LET lo == cmap.padding[1]
            hi == cmap.padding[2]
            n == normalize(cmap.normalization, Clamp(call.x))
            p == RAdd(lo, RMul(n, RSub(hi, lo)))
        IN  /\ call.result = Lerp(cmap.start, cmap.end, p)
            /\ (/\ cmap.padding = <<Rat(1, 4), Rat(3, 4)>>
                /\ cmap.start = RGBColor(Rat(4, 5), Zero, Zero)
                /\ cmap.end = RGBColor(Zero, Zero, Rat(4, 5))) =>
                    /\ RLe(call.x, Zero) =>
                        call.result = RGBColor(Rat(3, 5), Zero, Rat(1, 5))
                    /\ RLe(One, call.x) =>
                        call.result = RGBColor(Rat(1, 5), Zero, Rat(3, 5))

C7_Witness ==
    /\ GradientCallDone
    /\ cmap.normalization = Cbrt
    /\ cmap.padding = <<Rat(1, 4), Rat(3, 4)>>
    /\ cmap.start = RGBColor(Rat(4, 5), Zero, Zero)
    /\ cmap.end = RGBColor(Zero, Zero, Rat(4, 5))
    /\ call.x = Zero
    /\ call.result = RGBColor(Rat(3, 5), Zero, Rat(1, 5))

\* C8: with the default padding and x in [0,1], transform_single(x) is
\* start + n * (end - start) with n = x for Linear and n the cube root of x
\* for Cbrt: 1/27 -> 1/3, 1/8 -> 1/2, 8/27 -> 2/3 of the way.
C8_DefaultPaddingIsAffineInNormalizedInput ==
    (/\ GradientCallDone
     /\ cmap.padding = DefaultPadding
     /\ RLe(Zero, call.x) /\ RLe(call.x, One)) =>
        /\ cmap.normalization = Linear =>
            call.result = Lerp(cmap.start, cmap.end, call.x)
        /\ cmap.normalization = Cbrt =>
            \E n \in Inputs :
                /\ RMul(n, RMul(n, n)) = call.x
                /\ call.result = Lerp(cmap.start, cmap.end, n)
                /\ call.x = Rat(1, 27) => n = Rat(1, 3)
                /\ call.x = Rat(1, 8) => n = Rat(1, 2)
                /\ call.x = Rat(8, 27) => n = Rat(2, 3)

C8_Witness ==
    /\ GradientCallDone
    /\ cmap.padding = DefaultPadding
    /\ cmap.normalization = Cbrt
    /\ cmap.start # cmap.end
    /\ call.x = Rat(1, 8)
    /\ call.result = Lerp(cmap.start, cmap.end, Rat(1, 2))

\* C9 as stated: weighted_midpoint(A, B, w) is A + w * (B - A) for any real
\* w: weight 0 returns A and weight 1 returns B.
C9_Original ==
    call.op = "weighted_midpoint" =>
        /\ call.result = Lerp(args.self, args.other, args.weight)
        /\ args.weight = Zero => call.result = args.self
        /\ args.weight = One => call.result = args.other

\* C9 as amended: weighted_midpoint(A, B, w) is B + w * (A - B), that is
\* w * A + (1 - w) * B, for any real w (no clamping): weight 0 returns B, the
\* second argument, and weight 1 returns A, the first.
C9_WeightIsShareOfFirst ==
    call.op = "weighted_midpoint" =>
        /\ call.result = Lerp(args.other, args.self, args.weight)
        /\ args.weight = Zero => call.result = args.other
        /\ args.weight = One => call.result = args.self

C9_Witness ==
    /\ call.op = "weighted_midpoint"
    /\ args.weight = Rat(3, 2)
    /\ args.self # args.other
    /\ call.result = Lerp(args.other, args.self, Rat(3, 2))

\* the sum of weights[i] * Coord(colors[i])
RECURSIVE WeightedSum(_, _)
WeightedSum(colors, weights) ==
    IF colors = <<>> THEN Coord(Zero, Zero, Zero)
    ELSE CoordAdd(CoordScale(IntoCoord(Head(colors)), Head(weights)),
                  WeightedSum(Tail(colors), Tail(weights)))

ScaleFactors == { RInt(-1), RInt(2), Rat(1, 2) }

ScaleAll(weights, k) == [i \in 1..Len(weights) |-> RMul(weights[i], k)]

\* C10: when len(weights) = len(others) + 1 and the weights do not sum to
\* zero, weighted_average is (weights[0] * Coord(self) + sum of weights[i] *
\* Coord(others[i-1])) / sum(weights), and multiplying every weight by one
\* non-zero factor leaves the result unchanged.
C10_WeightedAverageFormula ==
    (/\ call.op = "weighted_average"
     /\ Len(args.weights) = Len(args.others) + 1
     /\ RSum(args.weights) # Zero) =>
        /\ call.result =
            Ok(FromCoord(CoordDiv(
                WeightedSum(<<args.self>> \o args.others, args.weights),
                RSum(args.weights))))
        /\ \A k \in ScaleFactors :
            weighted_average(args.self, args.others, ScaleAll(args.weights, k))
                = call.result

C10_Witness ==
    /\ call.op = "weighted_average"
    /\ Len(args.others) = 2
    /\ args.weights = <<RInt(2), RInt(-1), RInt(2)>>
    /\ args.self # args.others[1]
    /\ args.others[1] # args.others[2]
    /\ call.result.ok
    /\ IsFinite(call.result.value.r)

---------------------------------------------------------------------------
(* Distance, midpoint and average, src/src/color_funcs.rs                  *)

\* f64::sqrt, exact: the non-negative root of s is kept as its radicand
RSqrt(s) == [root_of |-> s]

\* sqrt(a) <= sqrt(b) + sqrt(c) for radicands a, b, c >= 0: either
\* a <= b + c, or (a - b - c)^2 <= 4 * b * c
SqrtLeSum(a, b, c) ==
    LET e == RSub(a, RAdd(b, c))
    IN  \/ e[1] <= 0
        \/ RSub(RMul(e, e), RMul(RInt(4), RMul(b, c)))[1] <= 0

\* Coord::euclidean_distance(&self, other): sqrt of the sum of the squared
\* differences of the components
Coord_euclidean_distance(c, other) ==
    LET dx == RSub(c.x, other.x)
        dy == RSub(c.y, other.y)
        dz == RSub(c.z, other.z)
    IN  RSqrt(RAdd(RMul(dx, dx), RAdd(RMul(dy, dy), RMul(dz, dz))))

\* Coord::midpoint(&self, other): the arithmetic mean of the two points
Coord_midpoint(c, other) == CoordDiv(CoordAdd(c, other), RInt(2))

RECURSIVE CoordSum(_, _)
CoordSum(acc, cs) ==
    IF cs = <<>> THEN acc ELSE CoordSum(CoordAdd(acc, Head(cs)), Tail(cs))

\* Coord::average(self, others): the mean of self and the others
Coord_average(c, others) == CoordDiv(CoordSum(c, others), RInt(Len(others) + 1))

\* measures from self to self
euclidean_distance_to_self(self, other) ==
    Coord_euclidean_distance(IntoCoord(self), IntoCoord(self))

\* reads the channels of `other` in the order b, g, r
euclidean_distance_other_reordered(self, other) ==
    Coord_euclidean_distance(IntoCoord(self),
                             Coord(other.b, other.g, other.r))

\* loses the third coordinate of `self`
euclidean_distance_self_without_z(self, other) ==
    Coord_euclidean_distance(Coord(self.r, self.g, Zero), IntoCoord(other))

euclidean_distance(self, other) ==
    LET c1 == IntoCoord(self)
        c2 == IntoCoord(other)
    IN  Coord_euclidean_distance(c1, c2)

\* takes both points from self
midpoint_of_self(self, other) ==
    FromCoord(Coord_midpoint(IntoCoord(self), IntoCoord(self)))

midpoint(self, other) ==
    LET c1 == IntoCoord(self)
        c2 == IntoCoord(other)
    IN  FromCoord(Coord_midpoint(c1, c2))

\* adds the colours and leaves the division by their number out
average_sum(self, others) ==
    CoordSum(IntoCoord(self), [i \in 1..Len(others) |-> IntoCoord(others[i])])

\* hands an empty vector on
average_ignoring_others(self, others) == Coord_average(IntoCoord(self), <<>>)

average(self, others) ==
    LET c1 == IntoCoord(self)
        other_cs == [i \in 1..Len(others) |-> IntoCoord(others[i])]
    IN  Coord_average(c1, other_cs)

\* the colours the geometric calls are made on: the palette, black, and
\* #0000FF
GeomColors ==
    Palette \cup { RGBColor(Zero, Zero, Zero), RGBColor(Zero, Zero, One) }

\* a triple of colours whose mutual distances are measured
DistanceArgs == [op : {"euclidean_distance"}, a : GeomColors, b : GeomColors,
                 c : GeomColors]

MidpointOnlyArgs == [op : {"midpoint"}, self : GeomColors, other : GeomColors]

PlainAverageArgs ==
    [op : {"average"}, self : AvgColors,
     others : SeqsOf(AvgColors, 0, MaxOthers)]

GeomInit ==
    /\ cmap = NoMap
    /\ args \in DistanceArgs \cup MidpointOnlyArgs \cup PlainAverageArgs
    /\ call = NoCall

\* the distances between the colours of a triple, each one call
CallEuclideanDistance ==
    /\ args.op = "euclidean_distance"
    /\ call = NoCall
    /\ call' = [op |-> "euclidean_distance",
                ab |-> euclidean_distance(args.a, args.b),
                ba |-> euclidean_distance(args.b, args.a),
                ac |-> euclidean_distance(args.a, args.c),
                cb |-> euclidean_distance(args.c, args.b),
                aa |-> euclidean_distance(args.a, args.a)]
    /\ UNCHANGED <<cmap, args>>

CallMidpoint ==
    /\ args.op = "midpoint"
    /\ call = NoCall
    /\ call' = [op |-> "midpoint", result |-> midpoint(args.self, args.other)]
    /\ UNCHANGED <<cmap, args>>

CallAverage ==
    /\ args.op = "average"
    /\ call = NoCall
    /\ call' = [op |-> "average", result |-> average(args.self, args.others)]
    /\ UNCHANGED <<cmap, args>>

GeomNext ==
    \/ CallEuclideanDistance
    \/ CallMidpoint
    \/ CallAverage

GeomSpec == GeomInit /\ [][GeomNext]_vars

\* C11: euclidean_distance(A, B) is never negative and is 0 if and only if A
\* and B have the same three coordinates; euclidean_distance(A, A) = 0.
C11_DistanceZeroIffEqual ==
    call.op = "euclidean_distance" =>
        /\ call.ab.root_of[1] >= 0
        /\ call.ab.root_of = Zero <=> IntoCoord(args.a) = IntoCoord(args.b)
        /\ call.aa.root_of = Zero

C11_Witness ==
    /\ call.op = "euclidean_distance"
    /\ args.a # args.b
    /\ call.ab.root_of # Zero
    /\ call.aa.root_of = Zero

\* C12: euclidean_distance(A, B) = euclidean_distance(B, A).
C12_DistanceSymmetric ==
    call.op = "euclidean_distance" => call.ab = call.ba

C12_Witness ==
    /\ call.op = "euclidean_distance"
    /\ args.a = RGBColor(Rat(1, 4), Rat(1, 2), Rat(3, 4))
    /\ args.b = RGBColor(One, Zero, Zero)
    /\ call.ab = call.ba
    /\ call.ab.root_of # Zero

\* C13: euclidean_distance(A, B) <= euclidean_distance(A, C) +
\* euclidean_distance(C, B).
C13_TriangleInequality ==
    call.op = "euclidean_distance" =>
        SqrtLeSum(call.ab.root_of, call.ac.root_of, call.cb.root_of)

C13_Witness ==
    /\ call.op = "euclidean_distance"
    /\ args.a # args.b /\ args.a # args.c /\ args.b # args.c
    /\ SqrtLeSum(call.ab.root_of, call.ac.root_of, call.cb.root_of)
    /\ ~SqrtLeSum(call.ac.root_of, call.ab.root_of, Zero)

\* C14: midpoint(A, A) = A, and midpoint(A, B) = weighted_midpoint(A, B, 1/2).
C14_MidpointIsHalfWeight ==
    call.op = "midpoint" =>
        /\ args.self = args.other => call.result = args.self
        /\ call.result = weighted_midpoint(args.self, args.other, Rat(1, 2))

C14_Witness ==
    /\ call.op = "midpoint"
    /\ args.self = RGBColor(One, Zero, Zero)
    /\ args.other = RGBColor(Rat(1, 4), Rat(1, 2), Rat(3, 4))
    /\ call.result = RGBColor(Rat(5, 8), Rat(1, 4), Rat(3, 8))

\* C15: average(self, others) with every element of others equal to self is
\* the coordinate of self, for any number of copies, none included.
C15_AverageOfCopies ==
    (call.op = "average" /\ \A i \in 1..Len(args.others) : args.others[i] = args.self)
        => call.result = IntoCoord(args.self)

C15_Witness ==
    /\ call.op = "average"
    /\ Len(args.others) = MaxOthers
    /\ \A i \in 1..Len(args.others) : args.others[i] = args.self
    /\ args.self = RGBColor(Rat(1, 4), Rat(1, 2), Rat(3, 4))
    /\ call.result = IntoCoord(args.self)

\* C16: average(self, others) is the coordinate of weighted_average(self,
\* others, weights) whenever all len(others) + 1 weights are one non-zero
\* value.
C16_AverageIsEqualWeights ==
    call.op = "average" =>
        \A w \in AvgWeights \cup { Rat(1, 2) } :
            LET weights == [i \in 1..(Len(args.others) + 1) |-> w]
                wa == weighted_average(args.self, args.others, weights)
            IN  wa.ok /\ call.result = IntoCoord(wa.value)

C16_Witness ==
    /\ call.op = "average"
    /\ Len(args.others) = 2
    /\ args.self # args.others[1]
    /\ args.others[1] # args.others[2]
    /\ call.result =
        IntoCoord(weighted_average(args.self, args.others,
                                   <<RInt(2), RInt(2), RInt(2)>>).value)

---------------------------------------------------------------------------
(* CIELUV, src/src/colors/cieluvcolor.rs                                   *)

XYZColor(x, y, z, illuminant) ==
    [x |-> x, y |-> y, z |-> z, illuminant |-> illuminant]

CIELUVColor(l, u, v) == [l |-> l, u |-> u, v |-> v]

Illuminants == {"D50", "D65"}

\* XYZColor::white_point(illuminant), Y normalized to 1; the chromaticities
\* are rounded to short fractions (D50 1 1 5/6, D65 19/20 1 13/12)
white_point(illuminant) ==
    IF illuminant = "D50"
    THEN XYZColor(One, One, Rat(5, 6), illuminant)
    ELSE XYZColor(Rat(19, 20), One, Rat(13, 12), illuminant)

\* the closures denom, u_func and v_func of both conversions
denom(color) ==
    RAdd(color.x, RAdd(RMul(RInt(15), color.y), RMul(RInt(3), color.z)))
u_func(color) == RDiv(RMul(RInt(4), color.x), denom(color))
v_func(color) == RDiv(RMul(RInt(9), color.y), denom(color))

\* let delta: f64 = 6.0 / 29.0
delta == Rat(6, 29)

\* f64::powf(3.0)
Cube(a) == RMul(a, RMul(a, a))

\* a <= b in f64: false when either side is NaN
FLe(a, b) == IsFinite(a) /\ IsFinite(b) /\ RSub(a, b)[1] <= 0

\* f64::powf(1.0 / 3.0) on a value > 0 whose cube root is rational
CubeRoot(a) == IF IsFinite(a) THEN RCbrt(a) ELSE NonFinite

from_xyz(xyz) ==
    LET wp == white_point(xyz.illuminant)
        u_prime_n == u_func(wp)
        v_prime_n == v_func(wp)
        u_prime == u_func(xyz)
        v_prime == v_func(xyz)
        y_scaled == RDiv(xyz.y, wp.y)
        l == IF FLe(y_scaled, Cube(delta))
             THEN RMul(Cube(RDiv(RInt(2), delta)), y_scaled)
             ELSE RSub(RMul(RInt(116), CubeRoot(y_scaled)), RInt(16))
        u == RMul(RMul(RInt(13), l), RSub(u_prime, u_prime_n))
        v == RMul(RMul(RInt(13), l), RSub(v_prime, v_prime_n))
    IN  CIELUVColor(l, u, v)

\* inverts the luminance by the cube-root branch alone, for every l
to_xyz_cube_branch_only(luv, illuminant) ==
    LET wp == white_point(illuminant)
        u_prime_n == u_func(wp)
        v_prime_n == v_func(wp)
        u_prime == RAdd(RDiv(luv.u, RMul(RInt(13), luv.l)), u_prime_n)
        v_prime == RAdd(RDiv(luv.v, RMul(RInt(13), luv.l)), v_prime_n)
        y == RMul(wp.y, Cube(RDiv(RAdd(luv.l, RInt(16)), RInt(116))))
        x == RDiv(RMul(RMul(y, RInt(9)), u_prime), RMul(RInt(4), v_prime))
        z == RDiv(RMul(y, RSub(RSub(RInt(12), RMul(RInt(3), u_prime)),
                               RMul(RInt(20), v_prime))),
                  RMul(RInt(4), v_prime))
    IN  XYZColor(x, y, z, illuminant)

to_xyz(luv, illuminant) ==
    LET wp == white_point(illuminant)
        u_prime_n == u_func(wp)
        v_prime_n == v_func(wp)
        u_prime == RAdd(RDiv(luv.u, RMul(RInt(13), luv.l)), u_prime_n)
        v_prime == RAdd(RDiv(luv.v, RMul(RInt(13), luv.l)), v_prime_n)
        y == IF FLe(luv.l, RInt(8))
             THEN RMul(RMul(wp.y, luv.l), Cube(RDiv(delta, RInt(2))))
             ELSE RMul(wp.y, Cube(RDiv(RAdd(luv.l, RInt(16)), RInt(116))))
        x == RDiv(RMul(RMul(y, RInt(9)), u_prime), RMul(RInt(4), v_prime))
        z == RDiv(RMul(y, RSub(RSub(RInt(12), RMul(RInt(3), u_prime)),
                               RMul(RInt(20), v_prime))),
                  RMul(RInt(4), v_prime))
    IN  XYZColor(x, y, z, illuminant)

\* relative luminances on the cube-root branch and zero
LuvYs == CubeInputs

\* relative luminances on the linear branch: half the threshold (6/29)^3 and
\* the threshold itself
LuvLowYs == { RDiv(Cube(delta), RInt(2)), Cube(delta) }

XyzInputs ==
    { XYZColor(x, y, z, i) : x \in { Zero, Rat(3, 10), One }, y \in LuvYs,
                             z \in { Zero, Rat(13, 20) }, i \in Illuminants }
    \cup { XYZColor(x, y, z, i) : x \in { Zero, One }, y \in LuvLowYs,
                                  z \in { Zero, One }, i \in Illuminants }

\* l = 0, below, at and above the threshold 8; 13, 42 and 100 are the l of
\* the relative luminances 1/64, 1/8 and 1
\* the v for which to_xyz under `illuminant` recovers v' = 0
ZeroVPrime(l, illuminant) ==
    RNeg(RMul(RMul(RInt(13), l), v_func(white_point(illuminant))))

LuvInputs ==
    { CIELUVColor(l, u, v) :
        l \in { Zero, RInt(4), RInt(8), RInt(13), RInt(42), RInt(100) },
        u \in { RInt(-13), Zero, RInt(26) }, v \in { Zero, RInt(13) } }
    \cup { CIELUVColor(l, u, ZeroVPrime(l, i)) :
             l \in { RInt(4), RInt(42) }, u \in { Zero, RInt(26) },
             i \in Illuminants }

XyzArgs == [op : {"from_xyz"}, xyz : XyzInputs]

LuvArgs == [op : {"to_xyz"}, luv : LuvInputs, illuminant : Illuminants]

LuvInit ==
    /\ cmap = NoMap
    /\ args \in XyzArgs \cup LuvArgs
    /\ call = NoCall

\* xyz -> luv -> xyz under the illuminant of xyz, as the test does
CallFromXyz ==
    /\ args.op = "from_xyz"
    /\ call = NoCall
    /\ call' = [op |-> "from_xyz",
                result |-> from_xyz(args.xyz),
                back |-> to_xyz(from_xyz(args.xyz), args.xyz.illuminant)]
    /\ UNCHANGED <<cmap, args>>

\* luv -> xyz -> luv under one illuminant
CallToXyz ==
    /\ args.op = "to_xyz"
    /\ call = NoCall
    /\ call' = [op |-> "to_xyz",
                result |-> to_xyz(args.luv, args.illuminant),
                back |-> from_xyz(to_xyz(args.luv, args.illuminant))]
    /\ UNCHANGED <<cmap, args>>

LuvNext ==
    \/ CallFromXyz
    \/ CallToXyz

LuvSpec == LuvInit /\ [][LuvNext]_vars

\* |a - b| <= 1e-6, false when either is not finite
Within1e6(a, b) ==
    /\ IsFinite(a) /\ IsFinite(b)
    /\ LET d == RSub(a, b) IN Abs(d[1]) <= d[2] \div 1000000

\* C17: for a fixed illuminant, to_xyz after from_xyz, and from_xyz after
\* to_xyz, reproduce the original value within 1e-6, for every color.
C17_RoundTripWithinTolerance ==
    /\ call.op = "from_xyz" =>
        /\ Within1e6(call.back.x, args.xyz.x)
        /\ Within1e6(call.back.y, args.xyz.y)
        /\ Within1e6(call.back.z, args.xyz.z)
    /\ call.op = "to_xyz" =>
        /\ Within1e6(call.back.l, args.luv.l)
        /\ Within1e6(call.back.u, args.luv.u)
        /\ Within1e6(call.back.v, args.luv.v)

---------------------------------------------------------------------------
\* C18: evaluating a colormap has no effect on it: a step of transform_single
\* or of transform leaves the colormap (start, end, normalization, padding,
\* or the table) as it was, and whatever was evaluated before, the color
\* returned is the one a single evaluation of the colormap gives.
C18_EvaluationLeavesColormapUnchanged ==
    /\ [][call'.op \in {"transform_single", "transform"} => cmap' = cmap]_vars
    /\ [](/\ call.op = "transform_single" =>
                call.result = transform_single(cmap, call.x)
          /\ call.op = "transform" =>
                \A i \in 1..Len(call.inputs) :
                    call.result[i] = transform_single(cmap, call.inputs[i]))

\* a bulk evaluation of two different inputs on a cube-root gradient whose
\* ends differ
C18_Witness ==
    /\ call.op = "transform"
    /\ cmap.kind = "gradient"
    /\ cmap.normalization = Cbrt
    /\ cmap.start # cmap.end
    /\ Len(call.inputs) = 2
    /\ call.result[1] # call.result[2]

---------------------------------------------------------------------------
\* the share of the way from start to end at which a color of the gradient
\* lies, read off the first channel in which start and end differ
GradientPosition(m, color) ==
    IF m.start.r # m.end.r
    THEN RDiv(RSub(color.r, m.start.r), RSub(m.end.r, m.start.r))
    ELSE IF m.start.g # m.end.g
    THEN RDiv(RSub(color.g, m.start.g), RSub(m.end.g, m.start.g))
    ELSE RDiv(RSub(color.b, m.start.b), RSub(m.end.b, m.start.b))

\* C19 as stated: the steps are clamp, padding remap, normalization: the
\* position of the returned color is the normalization of the clamped input
\* remapped into [lo, hi].
C19_Original ==
    (GradientCallDone /\ cmap.start # cmap.end) =>
        LET lo == cmap.padding[1]
            hi == cmap.padding[2]
            p == GradientPosition(cmap, call.result)
            padded == RAdd(lo, RMul(RSub(hi, lo), Clamp(call.x)))
        IN  /\ cmap.normalization = Linear => p = padded
            /\ cmap.normalization = Cbrt => Cube(p) = padded
            /\ cmap.normalization = Generic => p = RMul(padded, padded)

\* C19: the steps are clamp, normalization, padding remap: the position of
\* the returned color is lo + n * (hi - lo), where n is the normalization of
\* the clamped input (n = x for Linear, n^3 = x for Cbrt, n = x * x for the
\* generic mapping of the tests).
C19_PaddingRemapsNormalizedInput ==
    (GradientCallDone /\ cmap.start # cmap.end) =>
        LET lo == cmap.padding[1]
            hi == cmap.padding[2]
            p == GradientPosition(cmap, call.result)
            n == RDiv(RSub(p, lo), RSub(hi, lo))
            clamped == Clamp(call.x)
        IN  /\ cmap.normalization = Linear => n = clamped
            /\ cmap.normalization = Cbrt => Cube(n) = clamped
            /\ cmap.normalization = Generic => n = RMul(clamped, clamped)

\* test_padding: a Cbrt gradient with padding (1/4, 3/4) at 1/27 returns the
\* color 1/4 + 1/3 * 1/2 = 5/12 of the way, not the cube root of
\* 1/4 + 1/27 * 1/2
C19_Witness ==
    /\ GradientCallDone
    /\ cmap.start # cmap.end
    /\ cmap.normalization = Cbrt
    /\ cmap.padding = <<Rat(1, 4), Rat(3, 4)>>
    /\ call.x = Rat(1, 27)
    /\ GradientPosition(cmap, call.result) = Rat(5, 12)

---------------------------------------------------------------------------
\* C20: a ListedColorMap clamps its input: every x < 0 returns what x = 0
\* returns, the first row, and every x > 1 returns what x = 1 returns, the
\* last row.
C20_ListedClampsOutOfRange ==
    ListedCallDone =>
        LET N == Len(cmap.vals)
        IN  /\ RLt(call.x, Zero) =>
                /\ call.result = listed_transform_single(cmap, Zero)
                /\ call.result = FromCoord(CoordOfRow(cmap.vals[1]))
            /\ RLt(One, call.x) =>
                /\ call.result = listed_transform_single(cmap, One)
                /\ call.result = FromCoord(CoordOfRow(cmap.vals[N]))

\* the input 100 of test_mpl_colormaps on a table whose last row is not its
\* first
C20_Witness ==
    /\ ListedCallDone
    /\ Len(cmap.vals) >= 3
    /\ call.x = RInt(100)
    /\ cmap.vals[1] # cmap.vals[Len(cmap.vals)]
    /\ call.result = FromCoord(CoordOfRow(cmap.vals[Len(cmap.vals)]))

---------------------------------------------------------------------------
\* C21: for a table of N >= 2 rows and every input x, the indices
\* floor(c * (N - 1)) and ceil(c * (N - 1)), c the clamped x, both lie in
\* 0..N-1 and differ by at most 1, so no lookup of transform_single goes out
\* of range.
C21_IndicesInRange ==
    (ListedCallDone /\ Len(cmap.vals) >= 2) =>
        LET N == Len(cmap.vals)
            ind1 == Ind1(cmap.vals, call.x)
            ind2 == Ind2(cmap.vals, call.x)
        IN  /\ ind1 \in 0..(N - 1)
            /\ ind2 \in 0..(N - 1)
            /\ ind2 - ind1 \in {0, 1}
            /\ call.result # IndexOutOfBounds

\* an input between the last two grid points, and the input 1 on the last
\* row, are both reached; this is the first
C21_Witness ==
    /\ ListedCallDone
    /\ Len(cmap.vals) = MaxRows
    /\ Ind1(cmap.vals, call.x) = MaxRows - 2
    /\ Ind2(cmap.vals, call.x) = MaxRows - 1
    /\ call.result # IndexOutOfBounds

---------------------------------------------------------------------------
\* C22: the luminance branches agree. from_xyz yields l <= 8 exactly when
\* y / y_white <= (6/29)^3; at the threshold both of its branches give l = 8;
\* l does not decrease when y grows; and to_xyz, which selects by l <= 8,
\* takes the inverse of the branch from_xyz took, so that y (and, the other
\* way round, l) is recovered.
C22_LuminanceBranchesAgree ==
    /\ call.op = "from_xyz" =>
        LET wp == white_point(args.xyz.illuminant)
            y_scaled == RDiv(args.xyz.y, wp.y)
            l == call.result.l
        IN  /\ FLe(l, RInt(8)) <=> FLe(y_scaled, Cube(delta))
            /\ y_scaled = Cube(delta) =>
                /\ l = RInt(8)
                /\ RSub(RMul(RInt(116), CubeRoot(y_scaled)), RInt(16)) = RInt(8)
            /\ \A other \in XyzInputs :
                (/\ other.illuminant = args.xyz.illuminant
                 /\ FLe(other.y, args.xyz.y)) => FLe(from_xyz(other).l, l)
            /\ call.back.y = args.xyz.y
    /\ call.op = "to_xyz" =>
        LET wp == white_point(args.illuminant)
            y_scaled == RDiv(call.result.y, wp.y)
        IN  /\ FLe(args.luv.l, RInt(8)) <=> FLe(y_scaled, Cube(delta))
            /\ call.back.l = args.luv.l

\* the threshold itself: y = (6/29)^3 gives l = 8 and comes back
C22_Witness ==
    /\ call.op = "from_xyz"
    /\ args.xyz.y = Cube(delta)
    /\ call.result.l = RInt(8)
    /\ call.back.y = Cube(delta)

---------------------------------------------------------------------------
\* every component is a finite number
FiniteLuv(luv) == IsFinite(luv.l) /\ IsFinite(luv.u) /\ IsFinite(luv.v)
FiniteXyz(xyz) == IsFinite(xyz.x) /\ IsFinite(xyz.y) /\ IsFinite(xyz.z)

\* C23: the conversions never divide by zero on in-gamut inputs: from_xyz of
\* an XYZ color with non-negative components, black included, has finite l,
\* u and v; to_xyz of a CIELUV color with l >= 0, l = 0 and a recovered
\* v' = 0 included, has finite x, y and z.
C23_ConversionsYieldFiniteValues ==
    /\ (/\ call.op = "from_xyz"
        /\ args.xyz.x[1] >= 0 /\ args.xyz.y[1] >= 0 /\ args.xyz.z[1] >= 0) =>
            FiniteLuv(call.result)
    /\ (call.op = "to_xyz" /\ args.luv.l[1] >= 0) => FiniteXyz(call.result)

=============================================================================
